---------------------------- MODULE Spec2Model ----------------------------
(***************************************************************************)
(* A model of the telco churn utilities: util/acquire.py (the cached       *)
(* dataset fetch), util/prepare.py (the preparation pipeline and the       *)
(* train/validate/test split) and util/model.py (baseline, scoring and the *)
(* prediction file).                                                       *)
(*                                                                         *)
(* The functions are called one after another by a notebook; each group of *)
(* functions has its own specification over the variables it touches:      *)
(*   SpecAcquire  get_telco_data and the cache file                        *)
(*   SpecPrepare  prep_telco_data                                          *)
(*   SpecSplit    split_data                                               *)
(*   SpecScore    measure_model_performance                                *)
(*   SpecBaseline create_baseline_model                                    *)
(*   SpecHoldout  make_predictions_on_test and the prediction file         *)
(*   SpecModels   create_models and visualize_performance_of_models        *)
(***************************************************************************)
EXTENDS Integers, Sequences, FiniteSets, TLC

VARIABLES
    db,               \* the rows the fixed query returns right now (acquire.py:115)
    telco_csv,        \* the cache file 'telco.csv' (acquire.py:30)
    acq,              \* what the last step of the acquisition run did
    prep,             \* a prep_telco_data call: its argument and its outcome
    split,            \* a split_data call: its arguments and its outcome
    score,            \* a measure_model_performance call
    base,             \* a create_baseline_model call
    hold,             \* a make_predictions_on_test call
    predictions_csv,  \* the file 'predictions.csv' (model.py:260)
    models,           \* the dictionary of models the caller holds (model.py:159)
    perf              \* a create_models or visualize_performance_of_models call

vars == <<db, telco_csv, acq, prep, split, score, base, hold, predictions_csv,
         models, perf>>

\* Value of the variables of the function groups a specification leaves alone.
Idle == [op |-> "idle"]

SeqsUpTo(S, n) == UNION {[1..k -> S] : k \in 0..n}

Range(s) == {s[i] : i \in DOMAIN s}

(***************************************************************************)
(* util/acquire.py                                                         *)
(***************************************************************************)

\* Most rows of a table of the acquisition model.
MaxRows == 2

\* A cell is <<kind, text>>.  The query yields integers, strings and NULLs;
\* a string column may hold digits (total_charges is text in the database).
SourceCells == {<<"int", "1">>, <<"str", "1">>, <<"str", "x">>, <<"nan", "">>}

\* A table is one column of cells, one cell per row.
Tables == SeqsUpTo(SourceCells, MaxRows)

NumericTexts == {"1"}

\* df.to_csv(_telco_file, index = False): every cell becomes its text, a
\* missing value becomes the empty field; the kind of the cell is not written.
ToCsvField(c) == IF c[1] = "nan" THEN "" ELSE c[2]

ToCsv(df) == [i \in DOMAIN df |-> ToCsvField(df[i])]

\* pd.read_csv(_telco_file): the parser infers the type of the column from all
\* of its fields: all numeric gives integers, numeric with empty fields gives
\* floats and NaN, anything else gives strings (and NaN for an empty field).
ReadCsv(text) ==
    LET numeric(i) == text[i] \in NumericTexts
        empty(i)   == text[i] = ""
    IN  IF \A i \in DOMAIN text : numeric(i)
        THEN [i \in DOMAIN text |-> <<"int", text[i]>>]
        ELSE IF \A i \in DOMAIN text : numeric(i) \/ empty(i)
        THEN [i \in DOMAIN text |->
                 IF empty(i) THEN <<"nan", "">> ELSE <<"float", text[i]>>]
        ELSE [i \in DOMAIN text |->
                 IF empty(i) THEN <<"nan", "">> ELSE <<"str", text[i]>>]

NoFile == [exists |-> FALSE, text |-> <<>>]

File(text) == [exists |-> TRUE, text |-> text]

\* A mutant of CacheHit: the sense of the flag is inverted.
CacheHitInverted(exists, use_cache) == exists /\ ~use_cache

\* os.path.exists(_telco_file) and use_cache
CacheHit(exists, use_cache) == exists /\ use_cache

\* A mutant of CacheWrite: the index is written too (index = True), one more
\* leading field per row; in the one-column model, one more leading field.
CacheWriteWithIndex(df) == File(<<"0">> \o ToCsv(df))

\* df.to_csv(_telco_file, index = False): the file is replaced wholesale.
CacheWrite(df) == File(ToCsv(df))

\* A mutant of CacheAfterFailedQuery: the file is opened for writing before
\* the query is made, and a failing query leaves it empty.
CacheTruncated(before) == File(<<>>)

\* pd.read_sql raises and the exception leaves get_telco_data before to_csv
\* is reached: the file, or its absence, is as it was.
CacheAfterFailedQuery(before) == before

AcqIdle ==
    [op |-> "env", use_cache |-> FALSE, before |-> NoFile, queried |-> FALSE,
     wrote |-> FALSE, outcome |-> "none", ret |-> <<>>]

\* get_telco_data(use_cache); reachable says whether the query succeeds
\* (pd.read_sql raises when it does not, and the exception propagates, before
\* to_csv is reached).  pd.read_csv raises when there is no file to read.
get_telco_data(use_cache, reachable) ==
    /\ IF CacheHit(telco_csv.exists, use_cache)
       THEN /\ acq' = [op |-> "get", use_cache |-> use_cache, before |-> telco_csv,
                       queried |-> FALSE, wrote |-> FALSE,
                       outcome |-> IF telco_csv.exists THEN "returned" ELSE "raised",
                       ret |-> IF telco_csv.exists THEN ReadCsv(telco_csv.text) ELSE <<>>]
            /\ telco_csv' = telco_csv
       ELSE IF reachable
       THEN /\ acq' = [op |-> "get", use_cache |-> use_cache, before |-> telco_csv,
                       queried |-> TRUE, wrote |-> TRUE,
                       outcome |-> "returned", ret |-> db]
            /\ telco_csv' = CacheWrite(db)
       ELSE /\ acq' = [op |-> "get", use_cache |-> use_cache, before |-> telco_csv,
                       queried |-> TRUE, wrote |-> FALSE,
                       outcome |-> "raised", ret |-> <<>>]
            /\ telco_csv' = CacheAfterFailedQuery(telco_csv)
    /\ UNCHANGED <<db, prep, split, score, base, hold, predictions_csv,
                 models, perf>>

GetTelcoData == \E use_cache \in BOOLEAN, reachable \in BOOLEAN :
                    get_telco_data(use_cache, reachable)

\* The environment: the customers tables change between two calls.
SourceChanges ==
    /\ \E t \in Tables : t # db /\ db' = t
    /\ acq' = AcqIdle
    /\ UNCHANGED <<telco_csv, prep, split, score, base, hold, predictions_csv,
                 models, perf>>

\* The environment: the caller deletes the cache file.
DeleteCacheFile ==
    /\ telco_csv.exists
    /\ telco_csv' = NoFile
    /\ acq' = AcqIdle
    /\ UNCHANGED <<db, prep, split, score, base, hold, predictions_csv,
                 models, perf>>

InitAcquire ==
    /\ db \in Tables
    /\ telco_csv \in {NoFile} \cup {File(ToCsv(t)) : t \in Tables}
    /\ acq = AcqIdle
    /\ prep = Idle /\ split = Idle /\ score = Idle /\ base = Idle /\ hold = Idle
    /\ predictions_csv = NoFile
    /\ models = Idle /\ perf = Idle

NextAcquire == GetTelcoData \/ SourceChanges \/ DeleteCacheFile

SpecAcquire == InitAcquire /\ [][NextAcquire]_vars

\* C1: whenever the cache file exists and use_cache is true, get_telco_data
\* performs no data-source access, does not write the cache file, and returns
\* the table read from the cache file's current contents.
C1_CacheHitReadsFile ==
    (acq.op = "get" /\ acq.before.exists /\ acq.use_cache)
        => /\ ~acq.queried
           /\ ~acq.wrote
           /\ telco_csv = acq.before
           /\ acq.outcome = "returned"
           /\ acq.ret = ReadCsv(telco_csv.text)

\* A cache hit on a file with rows: the call returned without a query.
C1_Witness ==
    /\ acq.op = "get" /\ acq.before.exists /\ acq.use_cache
    /\ acq.outcome = "returned"
    /\ Len(acq.ret) > 0
    /\ ~acq.queried

\* C2: whenever use_cache is false or the cache file does not exist, a
\* successful get_telco_data call has queried the data source, and on return
\* the cache file exists and holds exactly the serialisation of the returned
\* table, whatever it held before.
C2_MissQueriesAndWrites ==
    (acq.op = "get" /\ (~acq.use_cache \/ ~acq.before.exists)
                    /\ acq.outcome = "returned")
        => /\ acq.queried
           /\ telco_csv.exists
           /\ telco_csv.text = ToCsv(acq.ret)

\* A forced refresh that replaced a file holding other contents.
C2_Witness ==
    /\ acq.op = "get" /\ ~acq.use_cache /\ acq.outcome = "returned"
    /\ acq.before.exists
    /\ acq.before # telco_csv
    /\ Len(acq.ret) > 0

\* C3: no get_telco_data call moves the cache from warm (file present) to
\* cold; once warm, the file's contents change only in a call made with
\* use_cache = false; and every call with use_cache = true in the warm state
\* returns the cached contents without querying the source.
C3_NoInvalidation ==
    [][(telco_csv.exists /\ acq'.op = "get")
          => /\ telco_csv'.exists
             /\ (telco_csv' # telco_csv => ~acq'.use_cache)
             /\ (acq'.use_cache
                   => /\ acq'.outcome = "returned"
                      /\ ~acq'.queried
                      /\ acq'.ret = ReadCsv(telco_csv.text))]_vars

\* A warm call that returned stale contents: the source has changed since the
\* file was written, and the returned table is the file's, not the source's.
C3_Witness ==
    /\ acq.op = "get" /\ acq.use_cache /\ acq.before.exists
    /\ ToCsv(db) # telco_csv.text
    /\ acq.ret = ReadCsv(telco_csv.text)
    /\ acq.ret # db

\* C14: if the query of get_telco_data fails, the failure propagates to the
\* caller and the cache file is left exactly as it was before the call (not
\* created when absent, not changed when present), because the file is
\* written only after the query has returned; so whatever the calls, the
\* contents of the cache file change only to the complete result of a
\* successful query, and an existing file holds such a result or what it
\* held before.
C14_FailedQueryLeavesCache ==
    /\ [](acq.op = "get" /\ acq.queried
              => (acq.outcome = "raised") = ~acq.wrote)
    /\ [](acq.op = "get" /\ acq.queried /\ acq.outcome = "raised"
              => /\ acq.ret = <<>>
                 /\ telco_csv = acq.before)
    /\ [][telco_csv' # telco_csv /\ telco_csv'.exists
              => /\ acq'.op = "get" /\ acq'.queried /\ acq'.outcome = "returned"
                 /\ acq'.ret = db
                 /\ telco_csv'.text = ToCsv(db)]_vars

\* A query that failed on a forced refresh of a file that does not hold what
\* the source holds now: the file is still there, with its earlier contents.
C14_Witness ==
    /\ acq.op = "get" /\ acq.queried /\ acq.outcome = "raised"
    /\ ~acq.use_cache
    /\ acq.before.exists
    /\ Len(acq.before.text) > 0
    /\ acq.before.text # ToCsv(db)
    /\ telco_csv = acq.before

(***************************************************************************)
(* util/prepare.py: split_data                                             *)
(***************************************************************************)

\* Most rows of a table given to split_data.
MaxSplitRows == 7

\* The values of the stratify column (churn).
Classes == {"No", "Yes"}

\* The stratify argument: a column of the table, or a name that is none.
StratifyArgs == {"churn", "no_such_column"}

\* test_split = 0.2 and train_validate_split = 0.3, in tenths.
TestSplitTenths == 2

TrainValidateSplitTenths == 3

RECURSIVE SumOver(_, _)
SumOver(f, S) ==
    IF S = {} THEN 0
    ELSE LET x == CHOOSE y \in S : TRUE IN f[x] + SumOver(f, S \ {x})

\* sklearn's n_test = ceil(test_size * n_samples).  The product is a float;
\* for n_samples < 60 and test_size 0.2 or 0.3 its ceiling is the exact one.
CeilTenths(tenths, n) == (tenths * n + 9) \div 10

ClassCount(rows, cls, c) == Cardinality({r \in rows : cls[r] = c})

ClassesOf(rows, cls) == {cls[r] : r \in rows}

\* train_test_split(..., stratify = ...) raises ValueError on an empty table,
\* an empty train set, a class with fewer than 2 members, or a train or test
\* set smaller than the number of classes.
SplitRaises(rows, cls, tenths) ==
    LET n       == Cardinality(rows)
        n_test  == CeilTenths(tenths, n)
        n_train == n - n_test
        classes == ClassesOf(rows, cls)
    IN  \/ n = 0
        \/ n_train = 0
        \/ \E c \in classes : ClassCount(rows, cls, c) < 2
        \/ n_train < Cardinality(classes)
        \/ n_test < Cardinality(classes)

\* sklearn's _approximate_mode(class_counts, n_draws, rng): each class gets the
\* floor of its share of n_draws, and the draws left over go to the classes
\* with the largest remainders, ties broken by the random generator.
ApproximateModes(rows, cls, n_draws) ==
    LET n        == Cardinality(rows)
        classes  == ClassesOf(rows, cls)
        share(c) == ClassCount(rows, cls, c) * n_draws
        floor(c) == share(c) \div n
        rem(c)   == share(c) % n
    IN  {a \in [classes -> 0..n] :
            /\ \A c \in classes : a[c] \in {floor(c), floor(c) + 1}
            /\ SumOver(a, classes) = n_draws
            /\ \A c, d \in classes :
                   (a[c] = floor(c) + 1 /\ a[d] = floor(d)) => rem(c) >= rem(d)}

\* train_test_split(df, test_size, random_state, stratify): the possible
\* <<train, test>> row sets.  Within each class the rows are permuted and the
\* first n_i go to train; the test set takes the remaining rows of the class
\* (the second _approximate_mode is given counts that sum to n_test).
TrainTestSplits(rows, cls, tenths) ==
    LET n       == Cardinality(rows)
        n_train == n - CeilTenths(tenths, n)
        classes == ClassesOf(rows, cls)
        modes   == ApproximateModes(rows, cls, n_train)
    IN  {<<tr, rows \ tr>> : tr \in
            {t \in SUBSET rows :
                /\ Cardinality(t) = n_train
                /\ [c \in classes |-> ClassCount(t, cls, c)] \in modes}}

\* A mutant of SecondSplitInput: the second split is given the whole table.
SecondSplitInputWhole(df_rows, train_validate) == df_rows

\* The table the second train_test_split partitions: train_validate.
SecondSplitInput(df_rows, train_validate) == train_validate

\* The arguments of a call: a table of n rows with their churn labels, and
\* the name of the stratify column.
SplitArgs(n, cls, st) ==
    [op |-> "args", n |-> n, churn |-> cls, stratify |-> st,
     outcome |-> "none", train |-> {}, validate |-> {}, test |-> {}]

\* split_data(df, stratify, random_seed): rows are named by their position.
split_data ==
    /\ split.op = "args"
    /\ LET rows   == 1..split.n
           cls    == split.churn
           raised == [split EXCEPT !.op = "done", !.outcome = "raised"]
       IN  IF split.stratify # "churn" \/ SplitRaises(rows, cls, TestSplitTenths)
           THEN split' = raised
           ELSE \E s1 \in TrainTestSplits(rows, cls, TestSplitTenths) :
                  LET tv == SecondSplitInput(rows, s1[1]) IN
                  IF SplitRaises(tv, cls, TrainValidateSplitTenths)
                  THEN split' = raised
                  ELSE \E s2 \in TrainTestSplits(tv, cls, TrainValidateSplitTenths) :
                         split' = [split EXCEPT !.op = "done",
                                                !.outcome = "returned",
                                                !.train = s2[1],
                                                !.validate = s2[2],
                                                !.test = s1[2]]
    /\ UNCHANGED <<db, telco_csv, acq, prep, score, base, hold, predictions_csv,
                 models, perf>>

InitSplit ==
    /\ \E n \in 0..MaxSplitRows : \E cls \in [1..n -> Classes] : \E st \in StratifyArgs :
           split = SplitArgs(n, cls, st)
    /\ db = <<>> /\ telco_csv = NoFile /\ acq = AcqIdle
    /\ prep = Idle /\ score = Idle /\ base = Idle /\ hold = Idle
    /\ predictions_csv = NoFile
    /\ models = Idle /\ perf = Idle

NextSplit == split_data

SpecSplit == InitSplit /\ [][NextSplit]_vars

\* C4: whenever split_data returns, train, validate and test are pairwise
\* disjoint and their union is the input's row set; test holds 20% of the
\* input's rows (rounded up), validate 30% of the remaining rows (rounded up),
\* so that the sizes are within two rows of 56%, 24% and 20% of the whole.
C4_SplitPartitions ==
    (split.op = "done" /\ split.outcome = "returned")
        => LET n  == split.n
               tr == Cardinality(split.train)
               va == Cardinality(split.validate)
               te == Cardinality(split.test)
           IN  /\ split.train \cap split.validate = {}
               /\ split.train \cap split.test = {}
               /\ split.validate \cap split.test = {}
               /\ split.train \cup split.validate \cup split.test = 1..n
               /\ 5 * te >= n /\ 5 * (te - 1) < n
               /\ 10 * va >= 3 * (n - te) /\ 10 * (va - 1) < 3 * (n - te)
               /\ 100 * te - 20 * n < 200 /\ 20 * n - 100 * te < 200
               /\ 100 * va - 24 * n < 200 /\ 24 * n - 100 * va < 200
               /\ 100 * tr - 56 * n < 200 /\ 56 * n - 100 * tr < 200

\* A successful split of a table with both classes.
C4_Witness ==
    /\ split.op = "done" /\ split.outcome = "returned"
    /\ ClassesOf(1..split.n, split.churn) = Classes
    /\ split.train # {} /\ split.validate # {} /\ split.test # {}

(***************************************************************************)
(* util/prepare.py: prep_telco_data                                        *)
(***************************************************************************)

\* Most rows of a table given to prep_telco_data.
MaxPrepRows == 2

\* cols_to_drop of _drop_useless_columns.
IdColumns ==
    {"customer_id", "contract_type_id", "internet_service_type_id", "payment_type_id"}

\* columns of _combine_duplicate_values.
NormalizedColumns ==
    {"multiple_lines", "online_security", "online_backup", "device_protection",
     "tech_support", "streaming_tv", "streaming_movies"}

AllColumns == IdColumns \cup {"tenure", "total_charges"} \cup NormalizedColumns

\* The module binds pd and train_test_split only: the name np that
\* _combine_duplicate_values uses is bound nowhere in prepare.py.
NumpyBound == FALSE

\* The values the service columns take in the dataset.
ServiceValues == {"Yes", "No", "No internet service"}

\* The service columns of a row: all alike, or one "Yes" among "No phone service".
ServiceInputs ==
    {[c \in NormalizedColumns |-> v] : v \in ServiceValues}
    \cup {[c \in NormalizedColumns |->
              IF c = "multiple_lines" THEN "Yes" ELSE "No phone service"]}

NumericCharges == {"20.5"}

\* A row maps each column to its value, numbers written as their text (tenure
\* "0" is the number 0); total_charges is text in the raw table, blank for the
\* customers who have not been billed yet.
PrepRow(id, tenure, charges, services) ==
    [c \in AllColumns |->
        IF c = "customer_id" THEN id
        ELSE IF c \in IdColumns THEN "1"
        ELSE IF c = "tenure" THEN tenure
        ELSE IF c = "total_charges" THEN charges
        ELSE services[c]]

PrepRows ==
    {PrepRow(id, tenure, charges, services) :
        id \in {"A", "B"}, tenure \in {"0", "1"},
        charges \in {" "} \cup NumericCharges, services \in ServiceInputs}

RestrictRow(row, columns) == [c \in columns |-> row[c]]

\* The columns of a table given to prep_telco_data: those of the raw telco
\* table, or a table that lacks one of the identifier columns.
PrepColumnSets == {AllColumns, AllColumns \ {"payment_type_id"}}

\* A table: its columns, and its rows with their index labels 0, 1, ...
PrepTable(rows, cols) ==
    [columns |-> cols,
     index   |-> [i \in DOMAIN rows |-> i - 1],
     rows    |-> [i \in DOMAIN rows |-> RestrictRow(rows[i], cols)]]

NoTable == [columns |-> {}, index |-> <<>>, rows |-> <<>>]

Returns(df) == [err |-> "", df |-> df]

Raises(e) == [err |-> e, df |-> NoTable]

RECURSIVE SortedSeq(_)
SortedSeq(K) ==
    IF K = {} THEN <<>>
    ELSE LET m == CHOOSE x \in K : \A y \in K : x <= y
         IN  <<m>> \o SortedSeq(K \ {m})

\* df[mask]: the rows at the positions K, in order, with their index labels.
SelectRows(df, K) ==
    LET at == SortedSeq(K)
    IN  [df EXCEPT !.index = [i \in DOMAIN at |-> df.index[at[i]]],
                   !.rows  = [i \in DOMAIN at |-> df.rows[at[i]]]]

\* df.drop_duplicates(): a row equal in every column to an earlier row goes.
drop_duplicates(df) ==
    SelectRows(df, {i \in DOMAIN df.rows :
                       \A j \in 1..(i - 1) : df.rows[j] # df.rows[i]})

\* df.drop(columns = cols_to_drop): KeyError when one of them is no column.
_drop_useless_columns(df) ==
    IF ~(IdColumns \subseteq df.columns)
    THEN Raises("KeyError")
    ELSE Returns([df EXCEPT !.columns = df.columns \ IdColumns,
                            !.rows = [i \in DOMAIN df.rows |->
                                         RestrictRow(df.rows[i], df.columns \ IdColumns)]])

\* df[df.tenure != 0], then total_charges.astype('float'): ValueError when a
\* remaining row's total_charges is not the text of a number.
_remove_missing_values(df) ==
    LET kept == SelectRows(df, {i \in DOMAIN df.rows : df.rows[i]["tenure"] # "0"})
    IN  IF \E i \in DOMAIN kept.rows : kept.rows[i]["total_charges"] \notin NumericCharges
        THEN Raises("ValueError")
        ELSE Returns([kept EXCEPT !.rows = [i \in DOMAIN kept.rows |->
                         [kept.rows[i] EXCEPT !["total_charges"] = <<"float", @>>]]])

\* for column in columns: df[column] = np.where(df[column] == 'Yes', 'Yes', 'No')
\* The first iteration evaluates the name np: NameError when it is unbound.
_combine_duplicate_values(df) ==
    IF ~NumpyBound
    THEN Raises("NameError")
    ELSE Returns([df EXCEPT !.rows = [i \in DOMAIN df.rows |->
                     [c \in df.columns |->
                         IF c \in NormalizedColumns
                         THEN (IF df.rows[i][c] = "Yes" THEN "Yes" ELSE "No")
                         ELSE df.rows[i][c]]]])

\* The indicator column get_dummies(drop_first = True) adds for a text column
\* whose values are "No" and "Yes", under the name _clean_column_names gives it.
DummyName(c) == c \o "_yes"

\* pd.get_dummies(df[categorical_cols], drop_first = True) appended to df: the
\* text columns left are the service columns; each gets the indicator of its
\* second category when it has one.
_encode_categorical_features(df) ==
    LET dummies == {c \in df.columns \cap NormalizedColumns :
                       {df.rows[i][c] : i \in DOMAIN df.rows} = {"No", "Yes"}}
        added   == {DummyName(c) : c \in dummies}
    IN  Returns([df EXCEPT
            !.columns = df.columns \cup added,
            !.rows = [i \in DOMAIN df.rows |->
                [c \in df.columns \cup added |->
                    IF c \in df.columns THEN df.rows[i][c]
                    ELSE LET src == CHOOSE d \in dummies : DummyName(d) = c
                         IN  IF df.rows[i][src] = "Yes" THEN "1" ELSE "0"]]])

\* Lower-cases the column names and strips blanks and parentheses; the names
\* of the model are clean already (DummyName gives the cleaned name).
_clean_column_names(df) == Returns(df)

\* prep_telco_data(df): the six stages in order; an exception ends the call.
prep_telco_data(df) ==
    LET s1 == Returns(drop_duplicates(df))
        s2 == IF s1.err # "" THEN s1 ELSE _drop_useless_columns(s1.df)
        s3 == IF s2.err # "" THEN s2 ELSE _remove_missing_values(s2.df)
        s4 == IF s3.err # "" THEN s3 ELSE _combine_duplicate_values(s3.df)
        s5 == IF s4.err # "" THEN s4 ELSE _encode_categorical_features(s4.df)
        s6 == IF s5.err # "" THEN s5 ELSE _clean_column_names(s5.df)
    IN  s6

PrepTelcoData ==
    /\ prep.op = "args"
    /\ LET r == prep_telco_data(prep.df)
       IN  prep' = [prep EXCEPT !.op = "done", !.err = r.err, !.out = r.df]
    /\ UNCHANGED <<db, telco_csv, acq, split, score, base, hold, predictions_csv,
                 models, perf>>

InitPrepare ==
    /\ \E n \in 0..MaxPrepRows : \E rows \in [1..n -> PrepRows] : \E cols \in PrepColumnSets :
           prep = [op |-> "args", df |-> PrepTable(rows, cols), err |-> "", out |-> NoTable]
    /\ db = <<>> /\ telco_csv = NoFile /\ acq = AcqIdle
    /\ split = Idle /\ score = Idle /\ base = Idle /\ hold = Idle
    /\ predictions_csv = NoFile
    /\ models = Idle /\ perf = Idle

NextPrepare == PrepTelcoData

SpecPrepare == InitPrepare /\ [][NextPrepare]_vars

\* A table the pipeline's own checks accept: the identifier columns are there
\* and every customer with tenure has a numeric total_charges.
PrepInputAccepted(df) ==
    /\ IdColumns \subseteq df.columns
    /\ \A i \in DOMAIN df.rows :
           df.rows[i]["tenure"] # "0" => df.rows[i]["total_charges"] \in NumericCharges

\* C5: prep_telco_data returns a table with at most as many rows as its input
\* and without the four identifier columns.
C5_PrepShrinksAndDropsIds ==
    (prep.op = "done" /\ PrepInputAccepted(prep.df))
        => /\ prep.err = ""
           /\ Len(prep.out.rows) <= Len(prep.df.rows)
           /\ prep.out.columns \cap IdColumns = {}

\* C6: after prep_telco_data, each of the seven normalized columns holds only
\* "Yes" and "No": "Yes" where the input row held "Yes", "No" elsewhere.
C6_NormalizedYesNo ==
    (prep.op = "done" /\ PrepInputAccepted(prep.df))
        => /\ prep.err = ""
           /\ NormalizedColumns \subseteq prep.out.columns
           /\ \A i \in DOMAIN prep.out.rows : \A c \in NormalizedColumns :
                  LET j == CHOOSE k \in DOMAIN prep.df.rows :
                               prep.df.index[k] = prep.out.index[i]
                  IN  prep.out.rows[i][c] =
                          (IF prep.df.rows[j][c] = "Yes" THEN "Yes" ELSE "No")

(***************************************************************************)
(* util/model.py: measure_model_performance                                *)
(***************************************************************************)

\* Most values of a label series.
MaxLabels == 2

\* The labels a series may hold: the two churn labels and a third value.
ScoreLabels == {"No", "Yes", "Other"}

\* The positive_label argument: 'Yes' as the callers pass it, or the default
\* 1, which no series of churn labels holds.
PositiveLabels == {"Yes", "1"}

\* How many prediction sets *y_pred holds.
PredictionCounts == 0..2

\* The labels argument: None, or the names of the models.
LabelLists == {<<>>, <<"Decision Tree">>, <<"Decision Tree", "Random Forest">>}


\* A mutant of ZeroDivision: zero_division = 1.
ZeroDivisionOne == [num |-> 1, den |-> 1]

\* zero_division = 0: the score reported when the denominator is zero.
ZeroDivision == [num |-> 0, den |-> 1]

\* A score is the fraction num/den.
Ratio(num, den) == IF den = 0 THEN ZeroDivision ELSE [num |-> num, den |-> den]

IsOne(x) == x.num = x.den

IsZero(x) == x.num = 0

CountWhere(y, p, a, b) == Cardinality({i \in DOMAIN y : y[i] = a /\ p[i] = b})

TruePositives(y, p, pos) == CountWhere(y, p, pos, pos)

PredictedPositives(p, pos) == Cardinality({i \in DOMAIN p : p[i] = pos})

ActualPositives(y, pos) == Cardinality({i \in DOMAIN y : y[i] = pos})

\* accuracy_score(y_true, predictions)
accuracy_score(y, p) ==
    [num |-> Cardinality({i \in DOMAIN y : y[i] = p[i]}), den |-> Len(y)]

\* precision_score(y_true, predictions, pos_label, zero_division = 0)
precision_score(y, p, pos) == Ratio(TruePositives(y, p, pos), PredictedPositives(p, pos))

\* recall_score(y_true, predictions, pos_label, zero_division = 0)
recall_score(y, p, pos) == Ratio(TruePositives(y, p, pos), ActualPositives(y, pos))

PresentLabels(y, p) == Range(y) \cup Range(p)

\* What sklearn's input checks raise for one prediction set: series of
\* different lengths; more than two labels in truth and predictions together
\* (a multiclass target with average = 'binary'); a pos_label that is none of
\* the labels present when two labels are present.
MetricsRaise(y, p, pos) ==
    \/ Len(y) # Len(p)
    \/ Cardinality(PresentLabels(y, p)) > 2
    \/ pos \notin PresentLabels(y, p) /\ Cardinality(PresentLabels(y, p)) >= 2

\* A mutant of PositiveLabelPassed: pos_label is left at sklearn's default.
PositiveLabelDefault(positive_label) == "1"

\* pos_label = positive_label
PositiveLabelPassed(positive_label) == positive_label

IndexNames == <<"0", "1", "2", "3">>

\* index if not labels else labels[index]
ModelName(labels, i) == IF labels = <<>> THEN IndexNames[i] ELSE labels[i]

\* The error the loop over the prediction sets ends with, "" when it ends
\* normally: for each set in turn IndexError when labels is too short, else
\* what the metrics raise.
RECURSIVE LoopError(_, _, _, _, _)
LoopError(y_true, y_pred, pos, labels, i) ==
    IF i > Len(y_pred) THEN ""
    ELSE IF labels # <<>> /\ i > Len(labels) THEN "IndexError"
    ELSE IF MetricsRaise(y_true, y_pred[i], PositiveLabelPassed(pos)) THEN "ValueError"
    ELSE LoopError(y_true, y_pred, pos, labels, i + 1)

\* measure_model_performance(y_true, *y_pred, positive_label, labels): one
\* row per prediction set; set_index('model') raises KeyError when there is
\* no row, and so no column 'model'.
measure_model_performance(y_true, y_pred, positive_label, labels) ==
    LET err == LoopError(y_true, y_pred, positive_label, labels, 1)
        pos == PositiveLabelPassed(positive_label)
    IN  IF err # "" THEN [err |-> err, rows |-> <<>>]
        ELSE IF y_pred = <<>> THEN [err |-> "KeyError", rows |-> <<>>]
        ELSE [err |-> "",
              rows |-> [i \in DOMAIN y_pred |->
                          [model     |-> ModelName(labels, i),
                           accuracy  |-> accuracy_score(y_true, y_pred[i]),
                           precision |-> precision_score(y_true, y_pred[i], pos),
                           recall    |-> recall_score(y_true, y_pred[i], pos)]]]

\* The label series of at most n values, none empty.
LabelSeries(n) == UNION {[1..k -> ScoreLabels] : k \in 1..n}

\* The arguments of a call.
ScoreArgs(y, ps, pos, ls) ==
    [op |-> "args", y_true |-> y, y_pred |-> ps, positive_label |-> pos,
     labels |-> ls, err |-> "", rows |-> <<>>]

MeasureModelPerformance ==
    /\ score.op = "args"
    /\ LET r == measure_model_performance(score.y_true, score.y_pred,
                                          score.positive_label, score.labels)
       IN  score' = [score EXCEPT !.op = "done", !.err = r.err, !.rows = r.rows]
    /\ UNCHANGED <<db, telco_csv, acq, prep, split, base, hold, predictions_csv,
                 models, perf>>

InitScore ==
    /\ \E y \in LabelSeries(MaxLabels) :
       \E k \in PredictionCounts : \E ps \in [1..k -> LabelSeries(MaxLabels)] :
       \E pos \in PositiveLabels : \E ls \in LabelLists :
           score = ScoreArgs(y, ps, pos, ls)
    /\ db = <<>> /\ telco_csv = NoFile /\ acq = AcqIdle
    /\ prep = Idle /\ split = Idle /\ base = Idle /\ hold = Idle
    /\ predictions_csv = NoFile
    /\ models = Idle /\ perf = Idle

NextScore == MeasureModelPerformance

SpecScore == InitScore /\ [][NextScore]_vars

\* The call is well formed and its data binary: at least one prediction set,
\* each as long as y_true, labels None or long enough, and at most two labels
\* in truth and predictions together.
BinaryCall ==
    /\ score.y_pred # <<>>
    /\ score.labels = <<>> \/ Len(score.labels) >= Len(score.y_pred)
    /\ \A i \in DOMAIN score.y_pred :
           /\ Len(score.y_pred[i]) = Len(score.y_true)
           /\ Cardinality(PresentLabels(score.y_true, score.y_pred[i])) <= 2

AllOne(row) == IsOne(row.accuracy) /\ IsOne(row.precision) /\ IsOne(row.recall)

\* C7 as stated: every prediction set identical to the true-label series is
\* scored accuracy = precision = recall = 1.0.
C7_PerfectScoresOne ==
    (score.op = "done" /\ score.err = "")
        => \A i \in DOMAIN score.y_pred :
               score.y_pred[i] = score.y_true => AllOne(score.rows[i])

\* C7, amended: every prediction set identical to a true-label series in which
\* the positive label occurs is scored accuracy = precision = recall = 1.0.
C7_PerfectScoresOneWhenPositiveOccurs ==
    (score.op = "done" /\ score.err = "")
        => \A i \in DOMAIN score.y_pred :
               (/\ score.y_pred[i] = score.y_true
                /\ score.positive_label \in Range(score.y_true))
                   => AllOne(score.rows[i])

\* A scored perfect prediction of a series holding both churn labels.
C7_Witness ==
    /\ score.op = "done" /\ score.err = ""
    /\ Range(score.y_true) = {"No", "Yes"}
    /\ score.positive_label = "Yes"
    /\ \E i \in DOMAIN score.y_pred : score.y_pred[i] = score.y_true

ZeroDenominatorsScoreZero(i) ==
    LET y   == score.y_true
        p   == score.y_pred[i]
        pos == score.positive_label
    IN  /\ PredictedPositives(p, pos) = 0 => IsZero(score.rows[i].precision)
        /\ ActualPositives(y, pos) = 0 => IsZero(score.rows[i].recall)
        /\ TruePositives(y, p, pos) = 0
              => IsZero(score.rows[i].precision) /\ IsZero(score.rows[i].recall)

PositiveLabelPresentOrOneLabel ==
    \A i \in DOMAIN score.y_pred :
        LET present == PresentLabels(score.y_true, score.y_pred[i])
        IN  score.positive_label \in present \/ Cardinality(present) = 1

MaxColumn == 3

\* The values of a column in sort order, and the missing value (NaN).
SortedValues == <<"No", "Other", "Yes">>

Missing == "NaN"

ColumnValues == Range(SortedValues) \cup {Missing}

SortRank(v) == CHOOSE r \in DOMAIN SortedValues : SortedValues[r] = v

Occurrences(column, v) == Cardinality({i \in DOMAIN column : column[i] = v})

FirstIndex(column, v) == CHOOSE i \in DOMAIN column :
                             column[i] = v /\ \A j \in 1..(i - 1) : column[j] # v

\* The values Series.mode() returns: missing values are not counted
\* (dropna = True), and every value with the highest count is a mode.
Modes(column) ==
    LET present == Range(column) \ {Missing}
    IN  {v \in present : \A w \in present : Occurrences(column, w) <= Occurrences(column, v)}

\* A mutant of FirstMode: the modes are kept in order of first appearance.
FirstModeEncountered(column) ==
    CHOOSE v \in Modes(column) :
        \A w \in Modes(column) : FirstIndex(column, v) <= FirstIndex(column, w)

\* column.mode()[0]: Series.mode() sorts the modes, so this is the least one.
FirstMode(column) ==
    CHOOSE v \in Modes(column) : \A w \in Modes(column) : SortRank(v) <= SortRank(w)

\* create_baseline_model(column): mode() of a column without values is empty
\* and [0] raises KeyError; the result has column.size entries.
create_baseline_model(column) ==
    IF Modes(column) = {}
    THEN [err |-> "KeyError", out |-> <<>>]
    ELSE [err |-> "", out |-> [i \in 1..Len(column) |-> FirstMode(column)]]

CreateBaselineModel ==
    /\ base.op = "args"
    /\ LET r == create_baseline_model(base.column)
       IN  base' = [base EXCEPT !.op = "done", !.err = r.err, !.out = r.out]
    /\ UNCHANGED <<db, telco_csv, acq, prep, split, score, hold, predictions_csv,
                 models, perf>>

InitBaseline ==
    /\ \E n \in 0..MaxColumn : \E c \in [1..n -> ColumnValues] :
           base = [op |-> "args", column |-> c, err |-> "", out |-> <<>>]
    /\ db = <<>> /\ telco_csv = NoFile /\ acq = AcqIdle
    /\ prep = Idle /\ split = Idle /\ score = Idle /\ hold = Idle
    /\ predictions_csv = NoFile
    /\ models = Idle /\ perf = Idle

NextBaseline == CreateBaselineModel

SpecBaseline == InitBaseline /\ [][NextBaseline]_vars

\* The result is a series as long as the column, every entry the value v.
ConstantSeries(v) ==
    /\ base.err = ""
    /\ Len(base.out) = Len(base.column)
    /\ \A i \in DOMAIN base.out : base.out[i] = v

\* C9 as stated (for columns without missing values): for any non-empty
\* column the result is a constant series of the input's length whose value
\* is the most frequent value; of several most frequent values, the one
\* encountered first in the input.
C9_BaselineFirstEncountered ==
    (base.op = "done" /\ base.column # <<>> /\ Missing \notin Range(base.column))
        => \E v \in Range(base.column) :
               /\ ConstantSeries(v)
               /\ \A w \in Range(base.column) :
                      /\ Occurrences(base.column, w) <= Occurrences(base.column, v)
                      /\ Occurrences(base.column, w) = Occurrences(base.column, v)
                            => FirstIndex(base.column, v) <= FirstIndex(base.column, w)

\* C9, amended: for any column holding at least one value that is not
\* missing, the result is a constant series of the input's length whose value
\* is the most frequent of the values that are not missing; of several most
\* frequent values, the least in sort order.
C9_BaselineLeastMode ==
    (base.op = "done" /\ Range(base.column) \ {Missing} # {})
        => \E v \in Range(base.column) \ {Missing} :
               /\ ConstantSeries(v)
               /\ \A w \in Range(base.column) \ {Missing} :
                      /\ Occurrences(base.column, w) <= Occurrences(base.column, v)
                      /\ Occurrences(base.column, w) = Occurrences(base.column, v)
                            => SortRank(v) <= SortRank(w)

\* A baseline for a column whose most frequent values tie, the first of them
\* in the column not being the least.
C9_Witness ==
    /\ base.op = "done" /\ base.err = ""
    /\ Cardinality(Modes(base.column)) > 1
    /\ base.out # <<>>
    /\ base.out[1] # base.column[1]
    /\ base.column[1] \in Modes(base.column)

(***************************************************************************)
(* util/model.py: make_predictions_on_test, write_predictions_to_file      *)
(***************************************************************************)

\* Most rows of the holdout table, and of original_df.
MaxHoldout == 2

MaxCustomers == 2

\* The index labels the rows of the two tables carry.
IndexLabels == {0, 1, 2}

\* The model's probability of the class 'Yes' for a row's features.
Probabilities == {"0.2", "0.8"}

\* The customer_id of the rows of original_df, by position.
CustomerIds == <<"A", "B", "C", "D">>

\* A holdout row: its index label, its churn label, and what the model's
\* predict_proba gives for its features.
HoldoutRows == [index : IndexLabels, churn : {"No", "Yes"}, proba : Probabilities]

\* original_df: the index labels of its rows and its columns.
OriginalTable(ix) == [index |-> ix, columns |-> {"customer_id"}]

\* model.predict(X) for a row: the class with the highest probability; a
\* model fitted on one class knows that class only.
Predict(n_classes, proba) == IF n_classes = 2 /\ proba = "0.8" THEN "Yes" ELSE "No"

PredictionColumns == <<"customer_id", "probability", "prediction">>

\* A mutant of JoinKey: the key is the row's position, not its index label.
JoinKeyPosition(customers, j) == j - 1

\* customers['index'] = customers.index: the join key of a row of original_df.
JoinKey(customers, j) == customers.index[j]

\* customers.merge(predictions, left_on = ['index'], right_on = ['index']): an
\* inner join in the order of the left rows; rows j.. of customers, each with
\* the rows of predictions that carry its key, projected on the three columns.
RECURSIVE MergeFrom(_, _, _)
MergeFrom(customers, predictions, j) ==
    IF j > Len(customers.index) THEN <<>>
    ELSE LET hits == SelectSeq(predictions,
                               LAMBDA r : r.index = JoinKey(customers, j))
         IN  [k \in DOMAIN hits |->
                 <<CustomerIds[j], hits[k].probability, hits[k].prediction>>]
             \o MergeFrom(customers, predictions, j + 1)

\* write_predictions_to_file(y, prob, pred, customers): the predictions frame
\* needs column 1 of prob (KeyError for a one-class model); then customers
\* gets the column 'index', the two frames are merged and the result replaces
\* predictions.csv.
write_predictions_to_file(df, n_classes, customers) ==
    IF n_classes < 2
    THEN [err |-> "KeyError", customers |-> customers, written |-> FALSE, text |-> <<>>]
    ELSE LET predictions == [k \in DOMAIN df |->
                                [index       |-> df[k].index,
                                 probability |-> df[k].proba,
                                 prediction  |-> Predict(n_classes, df[k].proba)]]
             indexed     == [customers EXCEPT !.columns = @ \cup {"index"}]
         IN  [err |-> "", customers |-> indexed, written |-> TRUE,
              text |-> <<PredictionColumns>> \o MergeFrom(indexed, predictions, 1)]

\* make_predictions_on_test(df, original_df, model): model.predict raises
\* ValueError on a table without rows; the metrics are computed before the
\* file is written.
make_predictions_on_test(df, original_df, n_classes) ==
    IF df = <<>>
    THEN [err |-> "ValueError", metrics |-> <<>>, customers |-> original_df,
          written |-> FALSE, text |-> <<>>]
    ELSE LET y       == [k \in DOMAIN df |-> df[k].churn]
             pred    == [k \in DOMAIN df |-> Predict(n_classes, df[k].proba)]
             metrics == measure_model_performance(y, <<pred>>, "Yes", <<"Decision Tree">>)
             w       == write_predictions_to_file(df, n_classes, original_df)
         IN  IF metrics.err # ""
             THEN [err |-> metrics.err, metrics |-> <<>>, customers |-> original_df,
                   written |-> FALSE, text |-> <<>>]
             ELSE [err |-> w.err, metrics |-> IF w.err = "" THEN metrics.rows ELSE <<>>,
                   customers |-> w.customers, written |-> w.written, text |-> w.text]

MakePredictionsOnTest ==
    /\ hold.op = "args"
    /\ LET r == make_predictions_on_test(hold.df, hold.original_df, hold.n_classes)
       IN  /\ hold' = [hold EXCEPT !.op = "done", !.err = r.err, !.metrics = r.metrics,
                                   !.customers = r.customers, !.before = predictions_csv]
           /\ predictions_csv' = IF r.written THEN File(r.text) ELSE predictions_csv
    /\ UNCHANGED <<db, telco_csv, acq, prep, split, score, base, models, perf>>

\* A prediction file an earlier run left behind.
EarlierPredictions == File(<<PredictionColumns, <<"Z", "0.8", "Yes">>>>)

InitHoldout ==
    /\ \E n \in 0..MaxHoldout : \E d \in [1..n -> HoldoutRows] :
       \E m \in 0..MaxCustomers : \E ix \in [1..m -> IndexLabels] : \E c \in {1, 2} :
           hold = [op |-> "args", df |-> d, original_df |-> OriginalTable(ix),
                   n_classes |-> c, err |-> "", metrics |-> <<>>,
                   customers |-> OriginalTable(ix), before |-> NoFile]
    /\ predictions_csv \in {NoFile, EarlierPredictions}
    /\ db = <<>> /\ telco_csv = NoFile /\ acq = AcqIdle
    /\ prep = Idle /\ split = Idle /\ score = Idle /\ base = Idle
    /\ models = Idle /\ perf = Idle

NextHoldout == MakePredictionsOnTest

SpecHoldout == InitHoldout /\ [][NextHoldout]_vars

RowOrders(n) == {f \in [1..n -> 1..n] : \A a, b \in 1..n : f[a] = f[b] => a = b}

\* The file holds the three columns and exactly one row per holdout row, that
\* row carrying the identifier of an original_df row with the holdout row's
\* index label, and the row's probability and predicted label.
OneRowPerHoldoutRow ==
    LET rows == Tail(predictions_csv.text)
        n    == Len(hold.df)
    IN  /\ predictions_csv.exists
        /\ Head(predictions_csv.text) = PredictionColumns
        /\ Len(rows) = n
        /\ \E f \in RowOrders(n) :
               \A k \in 1..n :
                   \E j \in DOMAIN hold.original_df.index :
                       /\ hold.original_df.index[j] = hold.df[k].index
                       /\ rows[f[k]] = <<CustomerIds[j], hold.df[k].proba,
                                         Predict(hold.n_classes, hold.df[k].proba)>>

\* C10 as stated: every successful make_predictions_on_test call leaves a
\* prediction file of the three columns with exactly one row per holdout row,
\* carrying the identifier of the original_df row with the same index.
C10_OneRowPerHoldoutRow ==
    (hold.op = "done" /\ hold.err = "") => OneRowPerHoldoutRow

\* Every holdout row's index label is the label of exactly one original_df row.
HoldoutIndexedInOriginal ==
    \A k \in DOMAIN hold.df :
        Cardinality({j \in DOMAIN hold.original_df.index :
                        hold.original_df.index[j] = hold.df[k].index}) = 1

\* C10, amended: every successful make_predictions_on_test call on a holdout
\* table each of whose index labels is the label of exactly one original_df
\* row replaces the prediction file by the three columns and exactly one row
\* per holdout row, carrying the identifier of the original_df row with the
\* same index.
C10_OneRowPerIndexedHoldoutRow ==
    (hold.op = "done" /\ hold.err = "" /\ HoldoutIndexedInOriginal)
        => OneRowPerHoldoutRow

\* A successful call that replaced an earlier file, for two holdout rows whose
\* customers come in another order in original_df.
C10_Witness ==
    /\ hold.op = "done" /\ hold.err = "" /\ HoldoutIndexedInOriginal
    /\ hold.before = EarlierPredictions
    /\ Len(hold.df) = 2
    /\ hold.df[1].index # hold.df[2].index
    /\ hold.original_df.index # <<0, 1>>
    /\ Len(predictions_csv.text) = 3

(***************************************************************************)
(* util/model.py: create_models, visualize_performance_of_models           *)
(***************************************************************************)

\* Most rows of the table the models are fitted on.
MaxTrainRows == 10

\* Most rows of the table the models are scored on.
MaxScoredRows == 2

\* DecisionTreeClassifier(max_depth = 5, ...)
TreeMaxDepth == 5

\* RandomForestClassifier(max_depth = 5, ...)
ForestMaxDepth == 5

\* KNeighborsClassifier(n_neighbors = 10, ...)
n_neighbors == 10

\* A mutant of weights: neighbours vote by the inverse of their distance.
WeightsDistance == "distance"

\* KNeighborsClassifier(..., weights = 'uniform'): every neighbour has one vote.
weights == "uniform"

\* The random_seed argument: its default.
RandomSeeds == {24}

\* The values of the seven feature columns of a row, taken together.
Features == {"a", "b"}

\* A row of the scored table: its features and its churn label.
ScoredRows == [x : Features, churn : ScoreLabels]

\* The table the models are fitted on, as far as fit keeps it: the number of
\* its rows and the set of its churn labels, which are 'Yes' and 'No' in the
\* customers data.
TrainTable(n, classes) == [rows |-> n, classes |-> classes]

\* split_into_X_and_y(df): the feature columns and the churn column, row by row.
split_into_X_and_y(df) ==
    [X |-> [i \in DOMAIN df |-> df[i].x], y |-> [i \in DOMAIN df |-> df[i].churn]]

\* The value None of the dictionary's entry 'Baseline'.
None == [kind |-> "None"]

\* A pandas Series as a value of the dictionary.
Series(values) == [kind |-> "Series", values |-> values]

\* The keys of the dictionary create_models returns, in insertion order.
ModelKeys == <<"Baseline", "Decision Tree", "Random Forest", "K Nearest Neighbors">>

\* The caller holds no dictionary yet.
NoModels == [keys |-> <<>>, value |-> <<>>]

\* model.fit(X, y): the estimator with its hyperparameters, the labels it has
\* seen (classes_) and the number of rows it was fitted on.
Fit(estimator, df) == [estimator EXCEPT !.classes = df.classes, !.n_samples_fit = df.rows]

\* create_models(df, random_seed): fit raises ValueError on a table without
\* rows; else the dictionary of the three fitted models and the entry
\* 'Baseline' : None.
create_models(df, random_seed) ==
    IF df.rows = 0
    THEN [err |-> "ValueError", models |-> NoModels]
    ELSE LET model_1 == Fit([kind |-> "DecisionTreeClassifier", max_depth |-> TreeMaxDepth,
                             random_state |-> random_seed,
                             classes |-> {}, n_samples_fit |-> 0], df)
             model_2 == Fit([kind |-> "RandomForestClassifier", max_depth |-> ForestMaxDepth,
                             random_state |-> random_seed,
                             classes |-> {}, n_samples_fit |-> 0], df)
             model_3 == Fit([kind |-> "KNeighborsClassifier", n_neighbors |-> n_neighbors,
                             weights |-> weights,
                             classes |-> {}, n_samples_fit |-> 0], df)
         IN  [err |-> "",
              models |-> [keys  |-> ModelKeys,
                          value |-> [k \in Range(ModelKeys) |->
                                        CASE k = "Decision Tree" -> model_1
                                          [] k = "Random Forest" -> model_2
                                          [] k = "K Nearest Neighbors" -> model_3
                                          [] OTHER -> None]]]

\* model.predict(X): one of the labels the model was fitted on for each row,
\* the same label for rows with the same features.  What a fitted model has
\* learnt is not modelled: any such assignment may be its answer.
Predictions(model, X) ==
    {p \in [DOMAIN X -> model.classes] :
        \A i, j \in DOMAIN X : X[i] = X[j] => p[i] = p[j]}

\* What predict of the nearest-neighbours model may raise: with fewer fitted
\* rows than n_neighbors the neighbour search raises ValueError in the
\* releases that check it before the search, and answers in the others.
KnnPredictErrors(model) ==
    IF model.n_neighbors > model.n_samples_fit THEN {"ValueError", ""} ELSE {""}

\* A mutant of ScoredPredictions: the baseline is not among the scored sets.
ScoredPredictionsModelsOnly(baseline, p_tree, p_forest, p_knn) ==
    <<p_tree, p_forest, p_knn>>

\* The prediction sets handed to measure_model_performance, in order.
ScoredPredictions(baseline, p_tree, p_forest, p_knn) ==
    <<baseline, p_tree, p_forest, p_knn>>

\* visualize_performance_of_models(df, models), with what the three predict
\* calls answer: the baseline is stored in the caller's dictionary before the
\* predictions are made and scored (create_baseline_model raises KeyError on
\* a table without rows); labels are the dictionary's keys.
visualize_performance_of_models(df, mdls, p_tree, p_forest, p_knn, knn_err) ==
    LET y        == split_into_X_and_y(df).y
        baseline == create_baseline_model(y)
        stored   == [mdls EXCEPT !.value["Baseline"] = Series(baseline.out)]
        metrics  == measure_model_performance(
                        y,
                        ScoredPredictions(baseline.out, p_tree, p_forest, p_knn),
                        "Yes", stored.keys)
    IN  IF baseline.err # ""
        THEN [err |-> baseline.err, rows |-> <<>>, models |-> mdls]
        ELSE IF knn_err # ""
        THEN [err |-> knn_err, rows |-> <<>>, models |-> stored]
        ELSE [err |-> metrics.err, rows |-> metrics.rows, models |-> stored]

CreateModels ==
    /\ perf.op = "args"
    /\ LET r == create_models(perf.train, perf.random_seed)
       IN  /\ perf' = [perf EXCEPT !.op = IF r.err = "" THEN "fitted" ELSE "failed",
                                   !.err = r.err]
           /\ models' = r.models
    /\ UNCHANGED <<db, telco_csv, acq, prep, split, score, base, hold, predictions_csv>>

\* The caller scores the models of its dictionary on a table.
VisualizePerformance ==
    /\ perf.op = "fitted"
    /\ \E n \in 0..MaxScoredRows : \E df \in [1..n -> ScoredRows] :
       LET X == split_into_X_and_y(df).X
       IN  \E p_tree \in Predictions(models.value["Decision Tree"], X) :
           \E p_forest \in Predictions(models.value["Random Forest"], X) :
           \E p_knn \in Predictions(models.value["K Nearest Neighbors"], X) :
           \E knn_err \in KnnPredictErrors(models.value["K Nearest Neighbors"]) :
               LET r == visualize_performance_of_models(df, models, p_tree, p_forest,
                                                        p_knn, knn_err)
               IN  /\ perf' = [perf EXCEPT !.op = "scored", !.df = df, !.err = r.err,
                                           !.rows = r.rows, !.before = models]
                   /\ models' = r.models
    /\ UNCHANGED <<db, telco_csv, acq, prep, split, score, base, hold, predictions_csv>>

InitModels ==
    /\ \E n \in 0..MaxTrainRows : \E classes \in SUBSET Classes :
       \E seed \in RandomSeeds :
           /\ (n = 0) = (classes = {})
           /\ Cardinality(classes) <= n
           /\ perf = [op |-> "args", train |-> TrainTable(n, classes),
                      random_seed |-> seed, df |-> <<>>, err |-> "", rows |-> <<>>,
                      before |-> NoModels]
    /\ models = NoModels
    /\ db = <<>> /\ telco_csv = NoFile /\ acq = AcqIdle
    /\ prep = Idle /\ split = Idle /\ score = Idle /\ base = Idle /\ hold = Idle
    /\ predictions_csv = NoFile

NextModels == CreateModels \/ VisualizePerformance

SpecModels == InitModels /\ [][NextModels]_vars

\* The scores table has exactly the four rows Baseline, Decision Tree, Random
\* Forest and K Nearest Neighbors, each with an accuracy between 0 and 1.
FourScoredRows ==
    /\ Len(perf.rows) = 4
    /\ \A i \in 1..4 :
           /\ perf.rows[i].model = ModelKeys[i]
           /\ perf.rows[i].accuracy.den > 0
           /\ 0 <= perf.rows[i].accuracy.num
           /\ perf.rows[i].accuracy.num <= perf.rows[i].accuracy.den

\* C11 as stated: visualize_performance_of_models, given a table and the
\* dictionary create_models returned, returns a scores table of exactly the
\* four rows Baseline, Decision Tree, Random Forest, K Nearest Neighbors, each
\* with accuracy in [0,1].
C11_ReturnsFourRows ==
    perf.op = "scored" => (perf.err = "" /\ FourScoredRows)

\* The scored table has rows, its churn labels are 'Yes' or 'No', and the
\* models were fitted on at least n_neighbors rows.
ScoredCallWellFormed ==
    /\ perf.df # <<>>
    /\ \A i \in DOMAIN perf.df : perf.df[i].churn \in Classes
    /\ perf.train.rows >= n_neighbors

\* C11, amended: every visualize_performance_of_models call that returns,
\* given the dictionary of create_models, returns a scores table of exactly
\* the four rows Baseline, Decision Tree, Random Forest, K Nearest Neighbors,
\* each with accuracy in [0,1]; and the call returns whenever the table has
\* rows, its churn labels are 'Yes' or 'No', and the models were fitted on
\* at least 10 rows of such labels.
C11_ReturnsFourRowsWhenWellFormed ==
    /\ (perf.op = "scored" /\ perf.err = "") => FourScoredRows
    /\ (perf.op = "scored" /\ ScoredCallWellFormed) => perf.err = ""

\* A returning call on two rows with both labels, where the tree scores
\* better than the baseline.
C11_Witness ==
    /\ perf.op = "scored" /\ perf.err = "" /\ ScoredCallWellFormed
    /\ Len(perf.df) = 2
    /\ perf.df[1].churn # perf.df[2].churn
    /\ Len(perf.rows) = 4
    /\ IsOne(perf.rows[2].accuracy)
    /\ ~IsOne(perf.rows[1].accuracy)

\* visualize_performance_of_models leaves the dictionary it was given as it
\* was.
ModelsUnchanged == perf.op = "scored" => models = perf.before

\* make_predictions_on_test leaves original_df, its columns and its rows, as
\* it was.
OriginalTableUnchanged == hold.op = "done" => hold.customers = hold.original_df

\* C12: every operation is a pure transformation of its inputs: apart from
\* the cache file and the prediction file no call changes anything the caller
\* can observe; in particular visualize_performance_of_models leaves the
\* models dictionary it was given unchanged, and make_predictions_on_test
\* leaves the holdout table and original_df (columns and rows) unchanged.
C12_PureTransformations == ModelsUnchanged /\ OriginalTableUnchanged

\* The dictionary create_models returned: the four keys in order, 'Baseline'
\* holding None, and exactly three classifiers, each fitted on the table: a
\* decision tree of depth at most 5, a random forest of depth at most 5 and
\* a nearest-neighbours classifier with 10 neighbours and the given weights.
CreatedModels(knn_weights) ==
    /\ models.keys = <<"Baseline", "Decision Tree", "Random Forest", "K Nearest Neighbors">>
    /\ DOMAIN models.value = Range(models.keys)
    /\ models.value["Baseline"] = [kind |-> "None"]
    /\ models.value["Decision Tree"].kind = "DecisionTreeClassifier"
    /\ models.value["Decision Tree"].max_depth = 5
    /\ models.value["Random Forest"].kind = "RandomForestClassifier"
    /\ models.value["Random Forest"].max_depth = 5
    /\ models.value["K Nearest Neighbors"].kind = "KNeighborsClassifier"
    /\ models.value["K Nearest Neighbors"].n_neighbors = 10
    /\ models.value["K Nearest Neighbors"].weights = knn_weights
    /\ \A k \in Range(models.keys) \ {"Baseline"} :
           /\ models.value[k].classes = perf.train.classes
           /\ models.value[k].n_samples_fit = perf.train.rows

\* C13 as stated: create_models trains exactly three classifiers with fixed
\* hyperparameters, a decision tree with max depth 5, a random forest with
\* max depth 5 and a distance-weighted k-nearest-neighbor classifier with 10
\* neighbors, and returns a dictionary with the keys Baseline, Decision Tree,
\* Random Forest, K Nearest Neighbors whose Baseline entry is an empty
\* placeholder.
C13_DistanceWeightedNeighbors ==
    (perf.op = "fitted") => CreatedModels("distance")

\* C13, amended: create_models trains exactly three classifiers with fixed
\* hyperparameters, a decision tree with max depth 5, a random forest with
\* max depth 5 and a uniformly weighted k-nearest-neighbor classifier with 10
\* neighbors, and returns a dictionary with the keys Baseline, Decision Tree,
\* Random Forest, K Nearest Neighbors whose Baseline entry is an empty
\* placeholder.
C13_UniformlyWeightedNeighbors ==
    (perf.op = "fitted") => CreatedModels("uniform")

\* create_models has returned the dictionary for a table of ten rows with
\* both churn labels.
C13_Witness ==
    /\ perf.op = "fitted"
    /\ perf.train.rows = 10
    /\ perf.train.classes = {"No", "Yes"}
    /\ models.value["K Nearest Neighbors"].n_samples_fit = 10
    /\ models.value["Baseline"].kind = "None"

=============================================================================
